---- MODULE Spec2Model ----
(***************************************************************************)
(* Model of sort_tasks.py: a task manager over the pipe-delimited file     *)
(* tasks.txt.  Text is a sequence of one-character strings, so that        *)
(* splitting, trimming, int() and str() are computed character by          *)
(* character.  A task dictionary is a function from a subset of Keys to    *)
(* values; a Python value that may be an int, None or float('inf') is a    *)
(* tagged record [tag, v].                                                 *)
(***************************************************************************)
EXTENDS Integers, Sequences, FiniteSets, TLC

\* ------------------------------------------------------------------ bounds
MaxTasks == 3
MaxFileLines == 2
MaxSortLen == 2
MaxWriteFailures == 1

\* ------------------------------------------------------------------ values
\* A Python int that fits a C int.
I(n) == [tag |-> "int", v |-> n]
\* A Python int outside the C int range; s is its sign, the magnitude is
\* abstracted (the program never formats or compares such a value).
Big(s) == [tag |-> "big", v |-> s]
None == [tag |-> "None", v |-> 0]
Inf == [tag |-> "inf", v |-> 0]

\* ------------------------------------------------------------------ text
Digits == <<"0", "1", "2", "3", "4", "5", "6", "7", "8", "9">>

IsDigit(c) == \E i \in 1..10 : Digits[i] = c

DigitVal(c) == (CHOOSE i \in 1..10 : Digits[i] = c) - 1

IsSpace(c) == c = " "

RECURSIVE lstrip(_)
lstrip(s) ==
  IF s = <<>> THEN s
  ELSE IF IsSpace(Head(s)) THEN lstrip(Tail(s)) ELSE s

RECURSIVE rstrip(_)
rstrip(s) ==
  IF s = <<>> THEN s
  ELSE IF IsSpace(s[Len(s)]) THEN rstrip(SubSeq(s, 1, Len(s) - 1)) ELSE s

\* str.strip()
strip(s) == rstrip(lstrip(s))

\* str.split('|')
RECURSIVE split(_)
split(s) ==
  IF \A i \in 1..Len(s) : s[i] # "|" THEN <<s>>
  ELSE LET i == CHOOSE k \in 1..Len(s) :
                  s[k] = "|" /\ \A j \in 1..(k - 1) : s[j] # "|"
       IN <<SubSeq(s, 1, i - 1)>> \o split(SubSeq(s, i + 1, Len(s)))

RECURSIVE DropZeros(_)
DropZeros(ds) ==
  IF ds # <<>> /\ Head(ds) = "0" THEN DropZeros(Tail(ds)) ELSE ds

\* Lexicographic "less or equal" on two digit strings of equal length.
RECURSIVE DigitsLeq(_, _)
DigitsLeq(a, b) ==
  IF a = <<>> THEN TRUE
  ELSE IF DigitVal(Head(a)) < DigitVal(Head(b)) THEN TRUE
  ELSE IF DigitVal(Head(a)) > DigitVal(Head(b)) THEN FALSE
  ELSE DigitsLeq(Tail(a), Tail(b))

\* The negated value of a digit string, accumulated left to right.
RECURSIVE NegVal(_, _)
NegVal(ds, acc) ==
  IF ds = <<>> THEN acc
  ELSE NegVal(Tail(ds), acc * 10 - DigitVal(Head(ds)))

\* int(text): surrounding whitespace ignored, an optional sign, then one or
\* more decimal digits.  ok = FALSE stands for ValueError.
int(s) ==
  LET t == strip(s)
      signed == t # <<>> /\ Head(t) \in {"+", "-"}
      neg == t # <<>> /\ Head(t) = "-"
      ds == IF signed THEN Tail(t) ELSE t
      sig == DropZeros(ds)
      limit == IF neg
               THEN <<"2", "1", "4", "7", "4", "8", "3", "6", "4", "8">>
               ELSE <<"2", "1", "4", "7", "4", "8", "3", "6", "4", "7">>
      fits == Len(sig) < 10 \/ (Len(sig) = 10 /\ DigitsLeq(sig, limit))
  IN IF ds = <<>> \/ \E i \in 1..Len(ds) : ~IsDigit(ds[i])
     THEN [ok |-> FALSE, val |-> None]
     ELSE IF ~fits
     THEN [ok |-> TRUE, val |-> Big(IF neg THEN -1 ELSE 1)]
     ELSE [ok |-> TRUE,
           val |-> I(IF neg THEN NegVal(sig, 0) ELSE 0 - NegVal(sig, 0))]

RECURSIVE NatToText(_)
NatToText(n) ==
  IF n < 10 THEN <<Digits[n + 1]>>
  ELSE NatToText(n \div 10) \o <<Digits[(n % 10) + 1]>>

\* str(n) for an int: no padding, '-' for a negative number.
IntToText(n) ==
  IF n >= 0 THEN NatToText(n)
  ELSE <<"-">> \o NatToText(0 - n)

\* The text an f-string gives a value of a task dictionary.
Format(x) ==
  IF x.tag = "int" THEN IntToText(x.v)
  ELSE IF x.tag = "None" THEN <<"N", "o", "n", "e">>
  ELSE <<"i", "n", "f">>

\* '|'.join(fields)
RECURSIVE JoinPipe(_)
JoinPipe(fs) ==
  IF fs = <<>> THEN <<>>
  ELSE IF Len(fs) = 1 THEN fs[1]
  ELSE fs[1] \o <<"|">> \o JoinPipe(Tail(fs))

\* ------------------------------------------------------------------ datetime
IsLeap(y) == y % 4 = 0 /\ (y % 100 # 0 \/ y % 400 = 0)

DaysInMonth(y, m) ==
  IF m = 2 THEN (IF IsLeap(y) THEN 29 ELSE 28)
  ELSE IF m \in {4, 6, 9, 11} THEN 30 ELSE 31

\* The mutant of datetime: the day and the hour are not range-checked.
datetime_unchecked(args) ==
  IF \E i \in 1..Len(args) : args[i].tag = "big" THEN "OverflowError"
  ELSE IF ~(args[1].v >= 1 /\ args[1].v <= 9999) THEN "ValueError"
  ELSE IF ~(args[2].v >= 1 /\ args[2].v <= 12) THEN "ValueError"
  ELSE "ok"

\* datetime(year, month, day[, hour, minute]): the arguments are converted
\* to C ints first (OverflowError), then range-checked (ValueError).
datetime(args) ==
  IF \E i \in 1..Len(args) : args[i].tag = "big" THEN "OverflowError"
  ELSE LET y == args[1].v
           m == args[2].v
           d == args[3].v
       IN IF ~(y >= 1 /\ y <= 9999) \/ ~(m >= 1 /\ m <= 12) THEN "ValueError"
          ELSE IF ~(d >= 1 /\ d <= DaysInMonth(y, m)) THEN "ValueError"
          ELSE IF Len(args) = 5 /\ ~(args[4].v >= 0 /\ args[4].v <= 23)
          THEN "ValueError"
          ELSE IF Len(args) = 5 /\ ~(args[5].v >= 0 /\ args[5].v <= 59)
          THEN "ValueError"
          ELSE "ok"

\* ------------------------------------------------------------------ output
Msg(m) == [msg |-> m, n |-> 0, raw |-> <<>>]

Warning(m, line_num, line) == [msg |-> m, n |-> line_num, raw |-> strip(line)]

\* ------------------------------------------------------------------ tasks
Keys == {"name", "year", "month", "day", "hour", "minute"}

\* dict.get(key, default)
Get(task, key, default) ==
  IF key \in DOMAIN task THEN task[key] ELSE default

\* ------------------------------------------------------------------ parser
\* parse_task_line: ret is "task" (task holds the dictionary), "None", or
\* "raise" (an exception that is not ValueError or IndexError leaves the
\* function); out is what it printed.
parse_task_line(line, line_num) ==
  LET parts == split(strip(line))
      nums == [i \in 1..(Len(parts) - 1) |-> int(strip(parts[i + 1]))]
      vals == [i \in 1..(Len(parts) - 1) |-> nums[i].val]
      dt == datetime(vals)
      reject(m) == [ret |-> "None", task |-> <<>>,
                    out |-> <<Warning(m, line_num, line)>>]
  IN IF Len(parts) = 4 THEN
       IF \E i \in 1..3 : ~nums[i].ok THEN reject("WarnUntimedValue")
       ELSE IF dt = "ValueError" THEN reject("WarnUntimedValue")
       ELSE IF dt = "OverflowError"
       THEN [ret |-> "raise", task |-> <<>>, out |-> <<>>]
       ELSE [ret |-> "task",
             task |-> <<[name |-> strip(parts[1]), year |-> vals[1],
                         month |-> vals[2], day |-> vals[3],
                         hour |-> None, minute |-> None]>>,
             out |-> <<>>]
     ELSE IF Len(parts) = 6 THEN
       IF \E i \in 1..5 : ~nums[i].ok THEN reject("WarnTimedValue")
       ELSE IF dt = "ValueError" THEN reject("WarnTimedValue")
       ELSE IF dt = "OverflowError"
       THEN [ret |-> "raise", task |-> <<>>, out |-> <<>>]
       ELSE [ret |-> "task",
             task |-> <<[name |-> strip(parts[1]), year |-> vals[1],
                         month |-> vals[2], day |-> vals[3],
                         hour |-> vals[4], minute |-> vals[5]]>>,
             out |-> <<>>]
     ELSE IF strip(line) = <<>>
     THEN [ret |-> "None", task |-> <<>>, out |-> <<>>]
     ELSE reject("WarnFieldCount")

\* ------------------------------------------------------------------ serializer
\* The line write_tasks_to_file writes for one task (without the newline).
TaskLine(task) ==
  LET f(k) == IF k \in DOMAIN task THEN
                (IF k = "name" THEN task[k] ELSE Format(task[k]))
              ELSE <<>>
  IN IF Get(task, "hour", None) # None /\ Get(task, "minute", None) # None
     THEN JoinPipe(<<f("name"), f("year"), f("month"), f("day"),
                     f("hour"), f("minute")>>)
     ELSE JoinPipe(<<f("name"), f("year"), f("month"), f("day")>>)

\* The complete file image of a collection: one line per task.
FileImage(ts) == [i \in 1..Len(ts) |-> TaskLine(ts[i])]

\* ------------------------------------------------------------------ sorter
\* A bool inside a sort key (Python orders bools as the ints 0 and 1).
B(b) == [tag |-> "bool", v |-> IF b THEN 1 ELSE 0]

\* The mutant of task_sort_key: the has_time flag is left out of the key, so
\* that the infinite hour of an untimed task orders it after the timed ones.
task_sort_key_no_flag(task) ==
  LET has_time == Get(task, "hour", None) # None
  IN <<Get(task, "year", I(0)), Get(task, "month", I(0)),
       Get(task, "day", I(0)), B(FALSE),
       IF has_time THEN Get(task, "hour", Inf) ELSE Inf,
       IF has_time THEN Get(task, "minute", Inf) ELSE Inf>>

\* task_sort_key(task) -> (year, month, day, has_time, hour, minute)
task_sort_key(task) ==
  LET year == Get(task, "year", I(0))
      month == Get(task, "month", I(0))
      day == Get(task, "day", I(0))
      has_time == Get(task, "hour", None) # None
      hour == IF has_time THEN Get(task, "hour", Inf) ELSE Inf
      minute == IF has_time THEN Get(task, "minute", Inf) ELSE Inf
  IN <<year, month, day, B(has_time), hour, minute>>

\* x < y on two key components: "T", "F", or "E" for the TypeError that
\* Python raises when None is ordered against anything.
ItemLt(x, y) ==
  LET rank(z) == IF z.tag = "inf" THEN 2
                 ELSE IF z.tag = "big" THEN z.v ELSE 0
  IN IF x.tag = "None" \/ y.tag = "None" THEN "E"
     ELSE IF rank(x) # rank(y) THEN (IF rank(x) < rank(y) THEN "T" ELSE "F")
     ELSE IF rank(x) = 0 THEN (IF x.v < y.v THEN "T" ELSE "F")
     ELSE "F"

\* k1 < k2 on two key tuples of equal length: the first components that
\* differ (by ==) decide, and only they are ordered.
TupleLt(k1, k2) ==
  IF \A i \in 1..Len(k1) : k1[i] = k2[i] THEN "F"
  ELSE LET i == CHOOSE n \in 1..Len(k1) :
                  k1[n] # k2[n] /\ \A j \in 1..(n - 1) : k1[j] = k2[j]
       IN ItemLt(k1[i], k2[i])

\* a < b as sorted(tasks, key=task_sort_key) evaluates it.
KeyLt(a, b) == TupleLt(task_sort_key(a), task_sort_key(b))

Reverse(s) == [i \in 1..Len(s) |-> s[Len(s) + 1 - i]]

\* The length of the run that starts the list, extended from length k;
\* -1 when a comparison raises.
RECURSIVE RunLength(_, _, _)
RunLength(a, k, descending) ==
  IF k = Len(a) THEN k
  ELSE LET c == KeyLt(a[k + 1], a[k])
       IN IF c = "E" THEN -1
          ELSE IF (c = "T") = descending THEN RunLength(a, k + 1, descending)
          ELSE k

\* Binary search of the insertion point of pivot in a[l..r-1]; 0 when a
\* comparison raises.
RECURSIVE BinarySearch(_, _, _, _)
BinarySearch(a, pivot, l, r) ==
  IF l >= r THEN l
  ELSE LET p == l + ((r - l) \div 2)
           c == KeyLt(pivot, a[p])
       IN IF c = "E" THEN 0
          ELSE IF c = "T" THEN BinarySearch(a, pivot, l, p)
          ELSE BinarySearch(a, pivot, p + 1, r)

\* Binary insertion of a[start..] into the sorted prefix a[1..start-1].
RECURSIVE BinarySort(_, _)
BinarySort(a, start) ==
  IF start > Len(a) THEN [err |-> FALSE, seq |-> a]
  ELSE LET pos == BinarySearch(a, a[start], 1, start)
       IN IF pos = 0 THEN [err |-> TRUE, seq |-> <<>>]
          ELSE BinarySort(SubSeq(a, 1, pos - 1) \o <<a[start]>>
                            \o SubSeq(a, pos, start - 1)
                            \o SubSeq(a, start + 1, Len(a)),
                          start + 1)

\* sorted(a, key=task_sort_key) for a short list: the leading run is found
\* (and reversed when strictly descending), the rest is inserted by binary
\* insertion.  err = TRUE stands for the TypeError of a failed comparison.
sorted(a) ==
  IF Len(a) < 2 THEN [err |-> FALSE, seq |-> a]
  ELSE LET first == KeyLt(a[2], a[1])
           n == RunLength(a, 2, first = "T")
       IN IF first = "E" \/ n = -1 THEN [err |-> TRUE, seq |-> <<>>]
          ELSE IF first = "T"
          THEN BinarySort(Reverse(SubSeq(a, 1, n))
                            \o SubSeq(a, n + 1, Len(a)), n + 1)
          ELSE BinarySort(a, n + 1)

\* sort_tasks(tasks): a new list, the argument is not changed.
sort_tasks(tasks_to_sort) == sorted(tasks_to_sort)

\* ------------------------------------------------------------------ store
\* open(DATA_FILE, 'w') and the writes that follow can fail: at open (the
\* file keeps its content), or after k complete lines were written to the
\* truncated file.  The environment fails at most MaxWriteFailures writes.
WriteOutcomes(ts, failed) ==
  {[fail |-> "none", k |-> Len(ts)]}
    \cup (IF failed < MaxWriteFailures
          THEN {[fail |-> "open", k |-> 0]}
                 \cup {[fail |-> "write", k |-> j] : j \in 0..(Len(ts) - 1)}
          ELSE {})

\* The mutant of write_tasks_to_file: the file is opened for appending.
write_tasks_to_file_append(ts, old, w) ==
  IF w.fail = "open"
  THEN [file |-> old, out |-> <<Msg("ErrorWriting")>>, status |-> "failed"]
  ELSE IF w.fail = "write"
  THEN [file |-> [exists |-> TRUE,
                  lines |-> old.lines \o SubSeq(FileImage(ts), 1, w.k)],
        out |-> <<Msg("ErrorWriting")>>, status |-> "failed"]
  ELSE [file |-> [exists |-> TRUE, lines |-> old.lines \o FileImage(ts)],
        out |-> <<Msg("Saved")>>, status |-> "ok"]

\* write_tasks_to_file(tasks) under outcome w: the new file and the output.
write_tasks_to_file(ts, old, w) ==
  IF w.fail = "open"
  THEN [file |-> old, out |-> <<Msg("ErrorWriting")>>, status |-> "failed"]
  ELSE IF w.fail = "write"
  THEN [file |-> [exists |-> TRUE, lines |-> SubSeq(FileImage(ts), 1, w.k)],
        out |-> <<Msg("ErrorWriting")>>, status |-> "failed"]
  ELSE [file |-> [exists |-> TRUE, lines |-> FileImage(ts)],
        out |-> <<Msg("Saved")>>, status |-> "ok"]

\* The reading loop of main: lines are parsed in order; an exception that
\* leaves parse_task_line ends the loop in main's "except Exception".
RECURSIVE ReadLines(_, _, _, _)
ReadLines(lines, line_num, acc, printed) ==
  IF line_num > Len(lines)
  THEN [tasks |-> acc, out |-> printed \o <<Msg("Loaded")>>]
  ELSE LET r == parse_task_line(lines[line_num], line_num)
       IN IF r.ret = "raise"
          THEN [tasks |-> acc, out |-> printed \o <<Msg("ReadError")>>]
          ELSE ReadLines(lines, line_num + 1, acc \o r.task, printed \o r.out)

\* The list position (from 1) that the Python index names: a negative index
\* counts from the end.
Position(ts, index) == IF index < 0 THEN index + Len(ts) + 1 ELSE index + 1

\* tasks.pop(index): the list without the element at that position.
Pop(ts, index) ==
  SubSeq(ts, 1, Position(ts, index) - 1)
    \o SubSeq(ts, Position(ts, index) + 1, Len(ts))

\* The mutant of InRange: the lower bound of the index is not checked.
InRangeNoLowerBound(index, ts) == index.tag = "int" /\ index.v < Len(ts)

\* 0 <= index_to_delete < len(tasks)
InRange(index, ts) == index.tag = "int" /\ 0 <= index.v /\ index.v < Len(ts)

\* ------------------------------------------------------------------ inputs
T(n) == IntToText(n)

NoFile == [exists |-> FALSE, lines |-> <<>>]

\* Lines a hand-maintained tasks.txt may hold.
FileLines ==
  { JoinPipe(<<<<"A">>, T(2025), T(1), T(1)>>),
    JoinPipe(<<<<" ", "A", " ">>, <<" ">> \o T(2024), T(2) \o <<" ">>,
               <<"0", "2", "9">>, T(9), T(30)>>),
    JoinPipe(<<<<"A">>, T(2023), T(2), T(29)>>),
    JoinPipe(<<<<"A">>, <<"2", "1", "4", "7", "4", "8", "3", "6", "4", "8">>,
               T(1), T(1)>>),
    JoinPipe(<<<<"A">>, T(2024)>>),
    <<" ">> }

RECURSIVE SeqsUpTo(_, _)
SeqsUpTo(S, n) ==
  IF n = 0 THEN {<<>>}
  ELSE LET shorter == SeqsUpTo(S, n - 1)
       IN shorter \cup {Append(q, x) : q \in shorter, x \in S}

InitialFiles ==
  {NoFile} \cup {[exists |-> TRUE, lines |-> ls] :
                   ls \in SeqsUpTo(FileLines, MaxFileLines)}

\* What the user may type at "Enter task name: ".
NameInputs == {<<"A">>, <<" ", "B", "|", "1">>, <<" ">>}

\* What the user may type at the year, month and day prompts.
DateInputs ==
  { <<T(2024), T(2), T(29)>>,
    <<T(2023), T(2), T(29)>>, <<T(2024), <<"x">>, T(1)>>,
    <<<<"2", "1", "4", "7", "4", "8", "3", "6", "4", "8">>, T(1), T(1)>> }

\* What the user may type at the hour and minute prompts.
TimeInputs ==
  { <<T(9), T(30)>>, <<T(10), T(5)>>, <<T(24), T(0)>>, <<T(24), <<"x">>>> }

\* What the user may type at the delete prompt.
IndexInputs == {T(i) : i \in -1..(MaxTasks + 1)} \cup {<<"x">>}

\* ------------------------------------------------------------------ state
VARIABLES
  pc,              \* where the program is: a prompt of main or of a handler
  tasks,           \* the in-memory list of task dictionaries
  file,            \* tasks.txt: whether it exists, and its lines
  out,             \* what the last step printed
  sorted_tasks,    \* the result of the last sort_tasks call of the last step
  last_write,      \* outcome of the most recent write_tasks_to_file call
  failures,        \* how many writes the environment has failed so far
  name, year, month, day, hour, minute,   \* locals of add_task
  index_to_delete, \* local of delete_task
  parsed           \* result of a direct parse_task_line call

locals == <<name, year, month, day, hour, minute>>

vars == <<pc, tasks, file, out, sorted_tasks, last_write, failures, locals,
          index_to_delete, parsed>>

NoSort == [err |-> FALSE, seq |-> <<>>]

NoParse == [ret |-> "", task |-> <<>>, out |-> <<>>]

NoLocals ==
  /\ name' = <<>>
  /\ year' = None /\ month' = None /\ day' = None
  /\ hour' = None /\ minute' = None

Init ==
  /\ pc = "start"
  /\ tasks = <<>>
  /\ file \in InitialFiles
  /\ out = <<>>
  /\ sorted_tasks = NoSort
  /\ last_write = "none"
  /\ failures = 0
  /\ name = <<>>
  /\ year = None /\ month = None /\ day = None
  /\ hour = None /\ minute = None
  /\ index_to_delete = None
  /\ parsed = NoParse

\* ------------------------------------------------------------------ main
\* The loading part of main.
Load ==
  /\ pc = "start"
  /\ LET r == ReadLines(file.lines, 1, <<>>, <<Msg("Loading")>>)
     IN IF file.exists
        THEN tasks' = r.tasks /\ out' = r.out
        ELSE tasks' = <<>> /\ out' = <<Msg("Loading"), Msg("NotFound")>>
  /\ pc' = "menu"
  /\ UNCHANGED <<file, sorted_tasks, last_write, failures, locals, index_to_delete,
                 parsed>>

\* The mutant of SortAndView: the list itself is replaced by its sorted copy.
SortAndViewInPlace ==
  /\ pc = "menu"
  /\ IF tasks = <<>>
     THEN /\ out' = <<Msg("NoTasksToDisplay")>>
          /\ sorted_tasks' = NoSort
          /\ tasks' = tasks
     ELSE /\ sorted_tasks' = sort_tasks(tasks)
          /\ tasks' = sort_tasks(tasks).seq
          /\ out' = <<Msg("SortedTasks")>>
  /\ pc' = "menu"
  /\ index_to_delete' = None
  /\ UNCHANGED <<file, last_write, failures, locals, parsed>>

\* choice '1'
SortAndView ==
  /\ pc = "menu"
  /\ IF tasks = <<>>
     THEN /\ out' = <<Msg("NoTasksToDisplay")>>
          /\ sorted_tasks' = NoSort
          /\ pc' = "menu"
     ELSE LET tasks_to_sort == tasks
              r == sort_tasks(tasks_to_sort)
          IN /\ sorted_tasks' = r
             /\ out' = IF r.err THEN <<>> ELSE <<Msg("SortedTasks")>>
             /\ pc' = IF r.err THEN "crashed" ELSE "menu"
  /\ index_to_delete' = None
  /\ UNCHANGED <<tasks, file, last_write, failures, locals, parsed>>

\* choice '4'
Exit ==
  /\ pc = "menu"
  /\ pc' = "exited"
  /\ out' = <<Msg("Exiting")>>
  /\ sorted_tasks' = NoSort
  /\ index_to_delete' = None
  /\ UNCHANGED <<tasks, file, last_write, failures, locals, parsed>>

\* any other choice
InvalidChoice ==
  /\ pc = "menu"
  /\ pc' = "menu"
  /\ out' = <<Msg("InvalidChoice")>>
  /\ sorted_tasks' = NoSort
  /\ index_to_delete' = None
  /\ UNCHANGED <<tasks, file, last_write, failures, locals, parsed>>

\* ------------------------------------------------------------------ add_task
\* choice '2': the name prompt.
AddStart(text) ==
  /\ pc = "menu"
  /\ Len(tasks) < MaxTasks
  /\ sorted_tasks' = NoSort
  /\ index_to_delete' = None
  /\ IF strip(text) = <<>>
     THEN /\ out' = <<Msg("NameEmpty")>>
          /\ pc' = "menu"
          /\ UNCHANGED locals
     ELSE /\ out' = <<>>
          /\ pc' = "add_date"
          /\ name' = strip(text)
          /\ UNCHANGED <<year, month, day, hour, minute>>
  /\ UNCHANGED <<tasks, file, last_write, failures, parsed>>

\* One pass of the date loop: the three prompts and the validation.
AddDate(texts) ==
  /\ pc = "add_date"
  /\ LET y == int(texts[1])
         m == int(texts[2])
         d == int(texts[3])
         dt == datetime(<<y.val, m.val, d.val>>)
     IN /\ year' = IF y.ok THEN y.val ELSE year
        /\ month' = IF y.ok /\ m.ok THEN m.val ELSE month
        /\ day' = IF y.ok /\ m.ok /\ d.ok THEN d.val ELSE day
        /\ IF ~(y.ok /\ m.ok /\ d.ok) \/ dt = "ValueError"
           THEN out' = <<Msg("InvalidNumber")>> /\ pc' = "add_date"
           ELSE IF dt = "OverflowError"
           THEN out' = <<Msg("InvalidDate")>> /\ pc' = "add_date"
           ELSE out' = <<>> /\ pc' = "add_timed"
  /\ UNCHANGED <<tasks, file, sorted_tasks, last_write, failures, name, hour, minute,
                 index_to_delete, parsed>>

\* new_task is appended and the list is written.
Commit(h, mi) ==
  LET new_task == [name |-> name, year |-> year, month |-> month,
                   day |-> day, hour |-> h, minute |-> mi]
  IN \E w \in WriteOutcomes(Append(tasks, new_task), failures) :
       LET r == write_tasks_to_file(Append(tasks, new_task), file, w)
       IN /\ tasks' = Append(tasks, new_task)
          /\ file' = r.file
          /\ out' = <<Msg("TaskAdded")>> \o r.out
          /\ last_write' = r.status
          /\ failures' = IF r.status = "ok" THEN failures ELSE failures + 1
          /\ pc' = "menu"
          /\ NoLocals

\* "Is this a timed task? (y/n)"
AddIsTimed(answer) ==
  /\ pc = "add_timed"
  /\ IF answer = "y"
     THEN /\ pc' = "add_time"
          /\ out' = <<>>
          /\ UNCHANGED <<tasks, file, last_write, failures, locals>>
     ELSE Commit(None, None)
  /\ UNCHANGED <<sorted_tasks, index_to_delete, parsed>>

\* One pass of the time loop: the two prompts and the validation.
AddTime(texts) ==
  /\ pc = "add_time"
  /\ LET h == int(texts[1])
         mi == int(texts[2])
         dt == datetime(<<year, month, day, h.val, mi.val>>)
     IN IF ~(h.ok /\ mi.ok) \/ dt # "ok"
        THEN /\ hour' = IF h.ok THEN h.val ELSE hour
             /\ minute' = IF h.ok /\ mi.ok THEN mi.val ELSE minute
             /\ out' = IF ~(h.ok /\ mi.ok) \/ dt = "ValueError"
                       THEN <<Msg("InvalidNumber")>>
                       ELSE <<Msg("InvalidTime")>>
             /\ pc' = "add_time"
             /\ UNCHANGED <<tasks, file, last_write, failures, name, year, month, day>>
        ELSE Commit(h.val, mi.val)
  /\ UNCHANGED <<sorted_tasks, index_to_delete, parsed>>

\* ------------------------------------------------------------------ delete_task
\* choice '3': the listing.
DeleteStart ==
  /\ pc = "menu"
  /\ IF tasks = <<>>
     THEN out' = <<Msg("NoTasksToDelete")>> /\ pc' = "menu"
     ELSE out' = <<Msg("CurrentTasks")>> /\ pc' = "delete"
  /\ sorted_tasks' = NoSort
  /\ index_to_delete' = None
  /\ UNCHANGED <<tasks, file, last_write, failures, locals, parsed>>

\* One pass of the index loop.
DeleteIndex(text) ==
  /\ pc = "delete"
  /\ LET r == int(text)
         in_range == InRange(r.val, tasks)
     IN IF ~r.ok
        THEN /\ out' = <<Msg("InvalidInput")>>
             /\ pc' = "delete"
             /\ UNCHANGED <<tasks, file, last_write, failures, index_to_delete>>
        ELSE IF ~in_range
        THEN /\ index_to_delete' = r.val
             /\ out' = <<Msg("InvalidIndex")>>
             /\ pc' = "delete"
             /\ UNCHANGED <<tasks, file, last_write, failures>>
        ELSE \E w \in WriteOutcomes(Pop(tasks, r.val.v), failures) :
               LET wr == write_tasks_to_file(Pop(tasks, r.val.v), file, w)
               IN /\ index_to_delete' = r.val
                  /\ tasks' = Pop(tasks, r.val.v)
                  /\ file' = wr.file
                  /\ out' = <<[msg |-> "Deleted", n |-> 0,
                               raw |-> tasks[Position(tasks, r.val.v)].name]>> \o wr.out
                  /\ last_write' = wr.status
                  /\ failures' =
                       IF wr.status = "ok" THEN failures ELSE failures + 1
                  /\ pc' = "menu"
  /\ UNCHANGED <<sorted_tasks, locals, parsed>>

Next ==
  \/ Load
  \/ SortAndView
  \/ Exit
  \/ InvalidChoice
  \/ \E text \in NameInputs : AddStart(text)
  \/ \E texts \in DateInputs : AddDate(texts)
  \/ \E answer \in {"y", "n"} : AddIsTimed(answer)
  \/ \E texts \in TimeInputs : AddTime(texts)
  \/ DeleteStart
  \/ \E text \in IndexInputs : DeleteIndex(text)

Spec == Init /\ [][Next]_vars

\* ------------------------------------------------------------------ parse_task_line alone
\* Lines handed to parse_task_line directly: 4-field and 6-field lines
\* over valid, padded, out-of-range, non-numeric and over-long fields, and
\* lines with another number of fields.
ParseLines ==
  { JoinPipe(<<n, y, m, d>>) :
      n \in {<<"A">>, <<" ", "A", " ">>, <<>>},
      y \in {T(2024), T(2023), T(0), <<"x">>,
             <<"2", "1", "4", "7", "4", "8", "3", "6", "4", "8">>},
      m \in {T(2), <<" ", "0", "2", " ">>, T(13)},
      d \in {T(29), T(30), <<>>} }
  \cup
  { JoinPipe(<<<<"A">>, y, T(2), d, h, mi>>) :
      y \in {T(2024), <<"2", "1", "4", "7", "4", "8", "3", "6", "4", "8">>},
      d \in {T(29), T(30)},
      h \in {T(0), T(23), T(24), <<"x">>, <<"+", "9">>},
      mi \in {T(0), T(59), T(60),
              <<"2", "1", "4", "7", "4", "8", "3", "6", "4", "8">>} }
  \cup
  { <<>>, <<" ", " ">>, <<"A">>, <<"|">>,
    JoinPipe(<<<<"A">>, T(2024), T(2)>>),
    JoinPipe(<<<<"A">>, T(2024), T(2), T(29), T(9)>>),
    JoinPipe(<<<<"A">>, T(2024), T(2), T(29), T(9), T(30), T(0)>>) }

InitParse ==
  /\ pc = "parse"
  /\ tasks = <<>>
  /\ file \in {[exists |-> TRUE, lines |-> <<l>>] : l \in ParseLines}
  /\ out = <<>>
  /\ sorted_tasks = NoSort
  /\ last_write = "none"
  /\ failures = 0
  /\ name = <<>>
  /\ year = None /\ month = None /\ day = None
  /\ hour = None /\ minute = None
  /\ index_to_delete = None
  /\ parsed = NoParse

\* parse_task_line(line, 1) on the one line of the file.
ParseLine ==
  /\ pc = "parse"
  /\ parsed' = parse_task_line(file.lines[1], 1)
  /\ out' = parsed'.out
  /\ pc' = "parsed"
  /\ UNCHANGED <<tasks, file, sorted_tasks, last_write, failures, locals,
                 index_to_delete>>

NextParse == ParseLine

ParseSpec == InitParse /\ [][NextParse]_vars

\* ------------------------------------------------------------------ sort_tasks alone
\* Task dictionaries as sort_tasks may be handed them: a date component
\* may be missing, hour and minute may each be an int, None or missing.
SortTasks ==
  { [k \in D |-> full[k]] :
      D \in { Keys, Keys \ {"year"}, Keys \ {"month"}, Keys \ {"day"},
              Keys \ {"hour"}, Keys \ {"minute"}, Keys \ {"hour", "minute"} },
      full \in { [name |-> n, year |-> I(2024), month |-> I(2), day |-> I(29),
                  hour |-> h, minute |-> mi] :
                   n \in {<<"A">>, <<"B">>},
                   h \in {I(9), None}, mi \in {I(30), None} } }

InitSort ==
  /\ pc = "sort"
  /\ tasks \in SeqsUpTo(SortTasks, MaxSortLen)
  /\ file = NoFile
  /\ out = <<>>
  /\ sorted_tasks = NoSort
  /\ last_write = "none"
  /\ failures = 0
  /\ name = <<>>
  /\ year = None /\ month = None /\ day = None
  /\ hour = None /\ minute = None
  /\ index_to_delete = None
  /\ parsed = NoParse

\* sort_tasks(tasks)
SortCall ==
  /\ pc = "sort"
  /\ sorted_tasks' = sort_tasks(tasks)
  /\ pc' = "sorted"
  /\ UNCHANGED <<tasks, file, out, last_write, failures, locals,
                 index_to_delete, parsed>>

NextSort == SortCall

SortSpec == InitSort /\ [][NextSort]_vars

\* ================================================================== claims
Printed(o, m) == \E i \in 1..Len(o) : o[i].msg = m

\* A value is set: it is an int, not None.
IsSet(x) == x.tag = "int"

\* Both hour and minute set, or neither.
TimeAsUnit(t) == IsSet(t.hour) <=> IsSet(t.minute)

\* The date, with the time when set, is a valid calendar date/time.
ValidCalendar(t) ==
  /\ IsSet(t.year) /\ IsSet(t.month) /\ IsSet(t.day)
  /\ t.year.v \in 1..9999
  /\ t.month.v \in 1..12
  /\ t.day.v \in 1..DaysInMonth(t.year.v, t.month.v)
  /\ IsSet(t.hour) => t.hour.v \in 0..23
  /\ IsSet(t.minute) => t.minute.v \in 0..59

\* C1 (stated as claimed): every record of the collection survives the
\* round trip: its saved line, parsed again, is the same record.
C1_RoundTrip ==
  \A i \in 1..Len(tasks) :
    LET r == parse_task_line(TaskLine(tasks[i]), i)
    IN r.ret = "task" /\ r.task = <<tasks[i]>>

\* C2: whenever the most recent write succeeded, the file holds exactly one
\* serialized line per record of the collection, in storage order, and
\* nothing else.
C2_FileInSync ==
  last_write = "ok" =>
    /\ file.exists
    /\ Len(file.lines) = Len(tasks)
    /\ \A i \in 1..Len(tasks) : file.lines[i] = TaskLine(tasks[i])

\* C2 witness: a save succeeded after an earlier save had failed, on a
\* collection of several records.
C2_Witness ==
  last_write = "ok" /\ failures >= 1 /\ Len(tasks) >= 2 /\ pc = "menu"

\* C3 (stated as claimed): a step that attempts a save leaves the file
\* either as it was or as the complete image of the collection, reports
\* the outcome and returns to the menu.
C3_AtomicSave ==
  [][(Printed(out', "Saved") \/ Printed(out', "ErrorWriting")) =>
       /\ (file' = file
             \/ file' = [exists |-> TRUE, lines |-> FileImage(tasks')])
       /\ pc' = "menu"]_vars

\* C4: at the delete prompt an index outside 0..len-1 (or a non-number) is
\* rejected with a message, leaving collection and file as they were; an
\* index inside removes exactly the record at that position, the others
\* keeping their order.
C4_DeleteIndex ==
  [][pc = "delete" =>
       IF Printed(out', "Deleted")
       THEN /\ IsSet(index_to_delete')
            /\ index_to_delete'.v \in 0..(Len(tasks) - 1)
            /\ Len(tasks') = Len(tasks) - 1
            /\ \A i \in 1..Len(tasks') :
                 tasks'[i] = IF i <= index_to_delete'.v
                             THEN tasks[i] ELSE tasks[i + 1]
       ELSE /\ tasks' = tasks /\ file' = file /\ pc' = "delete"
            /\ out' \in {<<Msg("InvalidIndex")>>, <<Msg("InvalidInput")>>}
            /\ ~(IsSet(index_to_delete')
                   /\ index_to_delete'.v \in 0..(Len(tasks) - 1))]_vars

\* C4 witness: the index equal to the length was entered and rejected.
C4_Witness ==
  /\ pc = "delete"
  /\ out = <<Msg("InvalidIndex")>>
  /\ index_to_delete = I(Len(tasks))
  /\ Len(tasks) >= 2

\* The order of the claim on valid records: by date; on one date an
\* untimed record first, timed records by (hour, minute).
DateOf(t) == <<t.year.v, t.month.v, t.day.v>>

DateBefore(a, b) ==
  \/ a.year.v < b.year.v
  \/ a.year.v = b.year.v /\ a.month.v < b.month.v
  \/ a.year.v = b.year.v /\ a.month.v = b.month.v /\ a.day.v < b.day.v

Before(a, b) ==
  \/ DateBefore(a, b)
  \/ /\ DateOf(a) = DateOf(b)
     /\ \/ ~IsSet(a.hour) /\ IsSet(b.hour)
        \/ /\ IsSet(a.hour) /\ IsSet(b.hour)
           /\ \/ a.hour.v < b.hour.v
              \/ a.hour.v = b.hour.v /\ a.minute.v < b.minute.v

Bijections(n) ==
  {p \in [1..n -> 1..n] : \A i, j \in 1..n : p[i] = p[j] => i = j}

\* res is src rearranged so that a record never follows one it is Before,
\* and records that tie keep the order they had in src.
IsStableSortOf(res, src) ==
  /\ Len(res) = Len(src)
  /\ \E p \in Bijections(Len(src)) :
       /\ \A i \in 1..Len(src) : res[i] = src[p[i]]
       /\ \A i, j \in 1..Len(src) :
            i < j => \/ Before(res[i], res[j])
                     \/ ~Before(res[j], res[i]) /\ p[i] < p[j]

IsAppend(old, new) == Len(new) = Len(old) + 1 /\ SubSeq(new, 1, Len(old)) = old

IsRemoval(old, new) ==
  \E k \in 1..Len(old) :
    new = SubSeq(old, 1, k - 1) \o SubSeq(old, k + 1, Len(old))

\* C6: a sort-and-view step changes neither the collection nor the file,
\* and a successful save writes the collection in storage order, which is
\* the previous order with one record appended or one removed.
C6_ViewReadOnly ==
  [][/\ (Printed(out', "SortedTasks") \/ Printed(out', "NoTasksToDisplay"))
          => tasks' = tasks /\ file' = file
     /\ Printed(out', "Saved")
          => /\ file'.lines = FileImage(tasks')
             /\ IsAppend(tasks, tasks') \/ IsRemoval(tasks, tasks')]_vars

\* C6 witness: a view was shown whose order differs from the storage
\* order, while the file holds the storage order.
C6_Witness ==
  /\ Printed(out, "SortedTasks")
  /\ sorted_tasks.seq # tasks
  /\ file.lines = FileImage(tasks)
  /\ Len(tasks) >= 2

\* The acceptance condition of the claim for a line.
Accepted(line) ==
  LET fields == split(strip(line))
      nums == [i \in 1..(Len(fields) - 1) |-> int(fields[i + 1])]
      n(i) == nums[i].val
  IN /\ Len(fields) \in {4, 6}
     /\ \A i \in 1..(Len(fields) - 1) : nums[i].ok
     /\ IsSet(n(1)) /\ IsSet(n(2)) /\ IsSet(n(3))
     /\ n(1).v \in 1..9999 /\ n(2).v \in 1..12
     /\ n(3).v \in 1..DaysInMonth(n(1).v, n(2).v)
     /\ Len(fields) = 6 =>
          /\ IsSet(n(4)) /\ IsSet(n(5))
          /\ n(4).v \in 0..23 /\ n(5).v \in 0..59

\* C7 (stated as claimed): parse_task_line yields a record exactly for an
\* accepted line, never raises, and warns exactly for a rejected line
\* that is not blank.
C7_ParseContract ==
  pc = "parsed" =>
    LET line == file.lines[1]
    IN /\ parsed.ret # "raise"
       /\ parsed.ret = "task" <=> Accepted(line)
       /\ parsed.out # <<>> <=> (~Accepted(line) /\ strip(line) # <<>>)

\* The records of the accepted lines, in order, every other line skipped.
RECURSIVE AcceptedRecords(_, _)
AcceptedRecords(lines, i) ==
  IF i > Len(lines) THEN <<>>
  ELSE (IF Accepted(lines[i]) THEN parse_task_line(lines[i], i).task ELSE <<>>)
         \o AcceptedRecords(lines, i + 1)

\* C8 (stated as claimed): after load the collection is the records of the
\* accepted lines of the file in file order, the load having continued
\* past every other line; without a file it is empty; no error is raised.
C8_Load ==
  Printed(out, "Loading") =>
    /\ pc = "menu"
    /\ ~Printed(out, "ReadError")
    /\ tasks = IF file.exists THEN AcceptedRecords(file.lines, 1) ELSE <<>>

\* C9: every record of the collection has hour and minute both set or both
\* unset, and a valid calendar date/time.
C9_ValidRecords ==
  \A i \in 1..Len(tasks) : TimeAsUnit(tasks[i]) /\ ValidCalendar(tasks[i])

\* C9 witness: add_task has just appended a timed record to a collection
\* that also holds an untimed one.
C9_Witness ==
  /\ Printed(out, "TaskAdded")
  /\ Len(tasks) >= 2
  /\ IsSet(tasks[Len(tasks)].hour) /\ IsSet(tasks[Len(tasks)].minute)
  /\ \E i \in 1..Len(tasks) : ~IsSet(tasks[i].hour)

\* The order of the claim on records that may lack fields: a missing date
\* component counts as 0; a time that is missing or only partly present
\* counts as untimed.
Component(t, k) == IF k \in DOMAIN t /\ IsSet(t[k]) THEN t[k].v ELSE 0

HasTime(t) ==
  /\ "hour" \in DOMAIN t /\ IsSet(t.hour)
  /\ "minute" \in DOMAIN t /\ IsSet(t.minute)

Normal(t) ==
  [name |-> t.name,
   year |-> I(Component(t, "year")), month |-> I(Component(t, "month")),
   day |-> I(Component(t, "day")),
   hour |-> IF HasTime(t) THEN t.hour ELSE None,
   minute |-> IF HasTime(t) THEN t.minute ELSE None]

\* C10 (stated as claimed): sort_tasks completes on records that lack
\* fields and orders them as the claim says.
C10_DefensiveSort ==
  pc = "sorted" =>
    /\ ~sorted_tasks.err
    /\ Len(sorted_tasks.seq) = Len(tasks)
    /\ \E p \in Bijections(Len(tasks)) :
         /\ \A i \in 1..Len(tasks) : sorted_tasks.seq[i] = tasks[p[i]]
         /\ \A i, j \in 1..Len(tasks) :
              i < j => ~Before(Normal(tasks[p[j]]), Normal(tasks[p[i]]))

====
